---- MODULE Spec2Model ----
(***************************************************************************)
(* Request dispatch, worker supervision, the content store, the inherited  *)
(* page parts and the navigation of the monsti daemon (nodeHandler in the  *)
(* HTTP handler file, node.go).                                            *)
(*                                                                         *)
(* Strings that the code slices are sequences of tokens: the path "/a/b"   *)
(* is <<"/", "a", "b">>, "/" is <<"/">> and the empty string is <<>>, so   *)
(* path[1:] is Tail(path).  A response body is a sequence of tokens too.   *)
(***************************************************************************)
EXTENDS Integers, Sequences, FiniteSets, TLC

\* ------------------------------------------------------------ bounds
MaxRequests == 2
MaxWorkers == 2
MaxDepth == 2

\* time.Sleep(5 * time.Second) in the restart callback
BackoffDelay == 5

\* ------------------------------------------------------------ value sets
Requests == 1..MaxRequests
WorkerIds == 1..MaxWorkers

\* the content-types main registers (Settings.NodeTypes) and one that it does not
RegTypes == {"document"}
AllTypes == RegTypes \cup {"video"}

Names == {"a", "b"}

RECURSIVE RelPathsUpTo(_)
RelPathsUpTo(n) ==
    IF n = 0 THEN {<<>>}
    ELSE LET shorter == RelPathsUpTo(n - 1)
         IN shorter \cup {Append(p, s) : p \in shorter, s \in Names}

\* directories below the data root, as the path relative to the root
RelPaths == RelPathsUpTo(MaxDepth)
\* absolute node paths: "/" followed by the relative path
AbsPaths == {<<"/">> \o p : p \in RelPaths}

EmptyString == <<>>

Titles == {"T1", "T2"}

\* client.Node, the fields the daemon reads
ZeroNode == [Path |-> EmptyString, Type |-> "", Title |-> ""]

\* client.Response; HasNode is res.Node != nil
ZeroResponse == [Body |-> <<>>, Redirect |-> <<>>, Raw |-> FALSE,
                 HasNode |-> FALSE, Node |-> ZeroNode]

Bodies == {<<>>, <<"b">>}
Redirects == {<<>>, <<"/", "r">>}
ResponseNodes == {[Path |-> <<"/", "b">>, Type |-> "document", Title |-> "T2"]}

\* the responses a worker of the daemon sends: none of the two, a body, a redirect
WorkerResponses ==
    {ZeroResponse, [ZeroResponse EXCEPT !.Body = <<"b">>],
     [ZeroResponse EXCEPT !.Redirect = <<"/", "r">>]}

Responses ==
    {[Body |-> b, Redirect |-> rd, Raw |-> raw, HasNode |-> FALSE, Node |-> ZeroNode] :
        b \in Bodies, rd \in Redirects, raw \in BOOLEAN}
    \cup
    {[Body |-> b, Redirect |-> rd, Raw |-> raw, HasNode |-> TRUE, Node |-> n] :
        b \in Bodies, rd \in Redirects, raw \in BOOLEAN, n \in ResponseNodes}

\* ------------------------------------------------------------ state
VARIABLES
    alive,       \* the daemon process has not died of an unrecovered panic
    NodeQueues,  \* h.NodeQueues: node type -> channel (0: no such key)
    sendq,       \* per channel, the requests parked in `queue <- ticket`, oldest first
    workers,     \* the worker instances NewWorker has made
    started,     \* the types whose startup AddNodeProcess has been called
    pc,          \* per request task, where it is
    ticket,      \* per request task, the worker.Ticket it built
    reply,       \* per request task, its ResponseChan c
    outcome,     \* per request task, what was written to the http.ResponseWriter
    accepted,    \* history: per request, the number of times a worker received its ticket
    sent,        \* history: per request, the number of values sent on its reply channel
    submitted,   \* history: per channel, the requests in the order of their sends
    taken,       \* history: per channel, the requests in the order of their receipt
    checked,     \* history: per request, how its node lookup and permission check ended
    crowd,       \* history: the most senders a receive has found parked on its channel
    dirs,        \* the directories below the data root
    files,       \* the node.yaml of each directory
    storeOp,     \* the last content store operation and its result
    storeOps,    \* the number of content store operations so far
    projection,  \* the last call of ProcessNodeResponse on its own, and its result
    attrFiles,   \* the sidebar.html and below_header.html files: <<file name, directory>>
    attrRun,     \* the call of getSidebar or getBelowHeader under way, and its result
    navFiles,    \* the navigation.yaml of each directory
    navCall,     \* the last call of a navigation function on its own, and its result
    nav,         \* the navigation a handler holds in memory
    navOps,      \* the number of navigation operations so far
    regPc,       \* per task that uses h.NodeQueues, where it is and for which node type
    regAccess,   \* per task, its access to the map h.NodeQueues under way
    regProc      \* per node type, the state of its worker process

vars == <<alive, NodeQueues, sendq, workers, started, pc, ticket, reply, outcome,
          accepted, sent, submitted, taken, crowd, checked, dirs, files, storeOp, storeOps, projection,
          attrFiles, attrRun, navFiles, navCall, nav, navOps, regPc, regAccess, regProc>>

dispatchVars == <<alive, NodeQueues, sendq, workers, started, pc, ticket, reply,
                  outcome, accepted, sent, submitted, taken, crowd, checked>>
attrVars == <<attrFiles, attrRun>>
navVars == <<navFiles, navCall, nav, navOps>>
regVars == <<regPc, regAccess, regProc>>
storeVars == <<dirs, files, storeOp, storeOps, projection, attrVars, navVars, regVars>>

\* ------------------------------------------------------------ content store

\* filepath.Join(root, p): the directory below the root, empty tokens cleaned
Join(p) == SelectSeq(p, LAMBDA s : s /= "")

\* filepath.Dir of a directory below the root
Parent(p) == IF p = <<>> THEN <<>> ELSE SubSeq(p, 1, Len(p) - 1)

NoFile == [exists |-> FALSE, content |-> <<>>]

\* goyaml.Marshal(&node): one key/value pair per field, the path only when it
\* is not empty
Marshal(node) ==
    <<<<"type", node.Type>>, <<"title", node.Title>>>>
    \o (IF node.Path = EmptyString THEN <<>> ELSE <<<<"path", node.Path>>>>)

\* a document goyaml cannot parse
BadYAML == <<<<"{">>>>

IsYAML(content) == \A i \in 1..Len(content) : Len(content[i]) = 2

\* the value of `key` in a parsed document, or the zero value
FieldOf(content, key, zero) ==
    LET hits == {i \in 1..Len(content) : content[i][1] = key}
    IN IF hits = {} THEN zero
       ELSE content[CHOOSE i \in hits : \A j \in hits : j <= i][2]

\* goyaml.Unmarshal(content, &node)
Unmarshal(content) ==
    [Path |-> FieldOf(content, "path", EmptyString),
     Type |-> FieldOf(content, "type", ""),
     Title |-> FieldOf(content, "title", "")]

\* lookupNode(root, path) on the files fs of the store
lookupNode(fs, path) ==
    LET f == fs[Join(Tail(path))]
    IN IF ~f.exists THEN [err |-> "ReadFile", node |-> ZeroNode]
       ELSE IF ~IsYAML(f.content) THEN [err |-> "Unmarshal", node |-> ZeroNode]
       ELSE [err |-> "", node |-> [Unmarshal(f.content) EXCEPT !.Path = path]]

\* os.Mkdir(dir): the error it returns
Mkdir(ds, dir) ==
    IF dir \in ds THEN "EEXIST"
    ELSE IF Parent(dir) \notin ds THEN "ENOENT"
    ELSE ""

\* writeNode(node, root) on the store (ds, fs): the store afterwards, and
\* whether the call panicked
writeNode(ds, fs, node) ==
    LET path == node.Path
        content == Marshal([node EXCEPT !.Path = EmptyString])
        dir == Join(Tail(path))
        mk == Mkdir(ds, dir)
    IN IF mk \notin {"", "EEXIST"}
       THEN [panic |-> TRUE, err |-> "", dirs |-> ds, files |-> fs]
       ELSE [panic |-> FALSE, err |-> "", dirs |-> ds \cup {dir},
             files |-> [fs EXCEPT ![dir] = [exists |-> TRUE, content |-> content]]]

\* ------------------------------------------------------------ http results

NoOutcome == [status |-> 0, location |-> <<>>, content |-> <<>>, node |-> ZeroNode]

\* http.Error(w, msg, code)
HttpError(msg, code) ==
    [status |-> code, location |-> <<>>, content |-> <<msg>>, node |-> ZeroNode]

\* http.Redirect(w, r, target, http.StatusSeeOther)
HttpRedirect(target) ==
    [status |-> 303, location |-> target, content |-> <<>>, node |-> ZeroNode]

\* w.Write(content) of a page rendered for `node`
HttpContent(content, node) ==
    [status |-> 200, location |-> <<>>, content |-> content, node |-> node]

\* the deferred recover of ServeHTTP
Recovered == HttpError("Application error.", 500)

\* renderInMaster: the body embedded in the master template of env.Node
renderInMaster(body, title) ==
    <<"<master>">> \o title \o body \o <<"</master>">>

\* ------------------------------------------------------------ ResponseProjector

\* ProcessNodeResponse without the test for an empty response: the empty body
\* is rendered like any other
ProcessNodeResponseEmptyOk(res, node, action, saveErr) ==
    LET used == IF res.HasNode THEN [res.Node EXCEPT !.Path = node.Path] ELSE node
    IN IF Len(res.Redirect) > 0 THEN HttpRedirect(res.Redirect)
       ELSE LET title == IF action = "edit" THEN <<"Edit", used.Title>> ELSE <<>>
                content == IF res.Raw THEN res.Body
                           ELSE renderInMaster(res.Body, title)
            IN IF saveErr THEN Recovered
               ELSE HttpContent(content, used)

\* ProcessNodeResponse without `node.Path = oldPath`
ProcessNodeResponseKeepsPath(res, node, action, saveErr) ==
    IF Len(res.Body) = 0 /\ Len(res.Redirect) = 0
    THEN HttpError("Application error.", 500)
    ELSE LET used == IF res.HasNode THEN res.Node ELSE node
         IN IF Len(res.Redirect) > 0 THEN HttpRedirect(res.Redirect)
            ELSE LET title == IF action = "edit" THEN <<"Edit", used.Title>> ELSE <<>>
                     content == IF res.Raw THEN res.Body
                                ELSE renderInMaster(res.Body, title)
                 IN IF saveErr THEN Recovered
                    ELSE HttpContent(content, used)

\* ProcessNodeResponse testing res.Raw before res.Redirect
ProcessNodeResponseRawFirst(res, node, action, saveErr) ==
    IF Len(res.Body) = 0 /\ Len(res.Redirect) = 0
    THEN HttpError("Application error.", 500)
    ELSE LET used == IF res.HasNode THEN [res.Node EXCEPT !.Path = node.Path]
                     ELSE node
         IN IF res.Raw THEN (IF saveErr THEN Recovered ELSE HttpContent(res.Body, used))
            ELSE IF Len(res.Redirect) > 0 THEN HttpRedirect(res.Redirect)
            ELSE LET title == IF action = "edit" THEN <<"Edit", used.Title>> ELSE <<>>
                 IN IF saveErr THEN Recovered
                    ELSE HttpContent(renderInMaster(res.Body, title), used)

\* ProcessNodeResponse(res, w, r, node, action, ...): what is written to w;
\* saveErr is the error of session.Save
ProcessNodeResponse(res, node, action, saveErr) ==
    IF Len(res.Body) = 0 /\ Len(res.Redirect) = 0
    THEN HttpError("Application error.", 500)
    ELSE LET used == IF res.HasNode THEN [res.Node EXCEPT !.Path = node.Path]
                     ELSE node
         IN IF Len(res.Redirect) > 0 THEN HttpRedirect(res.Redirect)
            ELSE LET title == IF action = "edit" THEN <<"Edit", used.Title>> ELSE <<>>
                     content == IF res.Raw THEN res.Body
                                ELSE renderInMaster(res.Body, title)
                 IN IF saveErr THEN Recovered
                    ELSE HttpContent(content, used)

\* ------------------------------------------------------------ URLs

ActionTokens == {"@@edit", "@@login", "@@logout", "@@add", "@@remove"}

\* last[2:] of a token that begins with "@@"
ActionName ==
    ("@@edit" :> "edit") @@ ("@@login" :> "login") @@ ("@@logout" :> "logout")
    @@ ("@@add" :> "add") @@ ("@@remove" :> "remove")

\* splitAction(path)
splitAction(path) ==
    LET last == path[Len(path)]
        action == IF last \in ActionTokens THEN ActionName[last] ELSE ""
    IN IF action /= ""
       THEN [nodePath |-> SubSeq(path, 1, Len(path) - 1), action |-> action]
       ELSE [nodePath |-> path, action |-> ""]

\* nodePath[len(nodePath)-1] == '/'
EndsWithSlash(path) == path = <<"/">> \/ path[Len(path)] = ""

\* the request URLs: "/" with and without an action, and "/a", "/b", "/a/b"
\* bare or with a trailing slash
URLs ==
    {<<"/">>, <<"/", "a">>, <<"/", "a", "">>, <<"/", "b", "">>, <<"/", "a", "b", "">>}
    \cup {<<"/", a>> : a \in ActionTokens \ {"@@edit"}}

\* ------------------------------------------------------------ supervisor

NoQueue == 0

UnbornWorker == [type |-> "", queue |-> NoQueue, state |-> "Unborn", ticket |-> 0, timer |-> 0]

Born(ws) == {w \in WorkerIds : ws[w].state /= "Unborn"}

\* a worker whose process runs: it is starting or in its run loop
Live(ws, t) == {w \in WorkerIds : ws[w].type = t /\ ws[w].state \in {"Starting", "Running"}}

\* make(chan worker.Ticket): the next channel
NewChan == Cardinality({t \in AllTypes : NodeQueues[t] /= NoQueue}) + 1

Channels == 1..Cardinality(AllTypes)

\* AddNodeProcess without the `if _, ok := ...; !ok` test: a new channel
\* replaces the type's queue at every call
QueueForAlwaysNew(nodeType) == NewChan

\* the queue AddNodeProcess hands to the worker of nodeType
QueueFor(nodeType) ==
    IF NodeQueues[nodeType] = NoQueue THEN NewChan ELSE NodeQueues[nodeType]

\* AddNodeProcess(nodeType, logger), with ws the workers before the call and
\* runErr whether worker.Run returns an error
AddNodeProcess(nodeType, runErr, ws) ==
    LET q == QueueFor(nodeType)
        w == Cardinality(Born(ws)) + 1
    IN /\ w \in WorkerIds
       /\ NodeQueues' = [NodeQueues EXCEPT ![nodeType] = q]
       /\ IF runErr
          THEN \* panic("Could not run worker: ...") outside any recover
               /\ alive' = FALSE
               /\ workers' = ws
          ELSE /\ alive' = alive
               /\ workers' = [ws EXCEPT ![w] = [type |-> nodeType, queue |-> q,
                                                state |-> "Starting", ticket |-> 0,
                                                timer |-> 0]]

\* startup: main starts one worker per configured node type
Startup(t) ==
    /\ alive
    /\ t \in RegTypes \ started
    /\ started' = started \cup {t}
    /\ \E runErr \in BOOLEAN : AddNodeProcess(t, runErr, workers)
    /\ UNCHANGED <<sendq, pc, ticket, reply, outcome, accepted, sent, submitted, taken>>
    /\ UNCHANGED <<crowd, checked>>
    /\ UNCHANGED storeVars

\* the worker's process came up and answered the handshake: it enters its run loop
WorkerHandshake(w) ==
    /\ alive
    /\ workers[w].state = "Starting"
    /\ workers' = [workers EXCEPT ![w].state = "Running"]
    /\ UNCHANGED <<alive, NodeQueues, sendq, started, pc, ticket, reply, outcome,
                   accepted, sent, submitted, taken>>
    /\ UNCHANGED <<crowd, checked>>
    /\ UNCHANGED storeVars

\* a further worker can still be made
CanRestart == Cardinality(Born(workers)) < MaxWorkers

\* the handshake fails: the run loop exits before it took a ticket
WorkerHandshakeFail(w) ==
    /\ alive
    /\ CanRestart
    /\ workers[w].state = "Starting"
    /\ workers' = [workers EXCEPT ![w].state = "Crashed"]
    /\ UNCHANGED <<alive, NodeQueues, sendq, started, pc, ticket, reply, outcome,
                   accepted, sent, submitted, taken>>
    /\ UNCHANGED <<crowd, checked>>
    /\ UNCHANGED storeVars

\* the run loop receives the next ticket from the worker's queue: the oldest
\* parked sender is released
WorkerAccept(w) ==
    /\ alive
    /\ workers[w].state = "Running"
    /\ workers[w].ticket = 0
    /\ sendq[workers[w].queue] /= <<>>
    /\ LET q == workers[w].queue
           r == Head(sendq[q])
       IN /\ sendq' = [sendq EXCEPT ![q] = Tail(@)]
          /\ workers' = [workers EXCEPT ![w].ticket = r]
          /\ pc' = [pc EXCEPT ![r] = "receive"]
          /\ accepted' = [accepted EXCEPT ![r] = @ + 1]
          /\ taken' = [taken EXCEPT ![q] = Append(@, r)]
          /\ crowd' = IF Len(sendq[q]) > crowd THEN Len(sendq[q]) ELSE crowd
    /\ UNCHANGED <<alive, NodeQueues, started, ticket, reply, outcome, sent, submitted>>
    /\ UNCHANGED <<checked>>
    /\ UNCHANGED storeVars

\* the worker sends its response on the ticket's ResponseChan
WorkerReply(w, res) ==
    /\ alive
    /\ workers[w].state = "Running"
    /\ workers[w].ticket /= 0
    /\ LET r == workers[w].ticket
       IN /\ reply[r].state = "open"
          /\ reply' = [reply EXCEPT ![r] = [state |-> "value", val |-> res]]
          /\ sent' = [sent EXCEPT ![r] = @ + 1]
    /\ workers' = [workers EXCEPT ![w].ticket = 0]
    /\ UNCHANGED <<alive, NodeQueues, sendq, started, pc, ticket, outcome, accepted,
                   submitted, taken>>
    /\ UNCHANGED <<crowd, checked>>
    /\ UNCHANGED storeVars

\* the worker process dies: the run loop exits and the ResponseChan of the
\* ticket it was working on is closed
WorkerCrash(w) ==
    /\ alive
    /\ CanRestart
    /\ workers[w].state = "Running"
    /\ workers' = [workers EXCEPT ![w].state = "Crashed", ![w].ticket = 0]
    /\ reply' = IF workers[w].ticket = 0 THEN reply
                ELSE [reply EXCEPT ![workers[w].ticket].state = "closed"]
    /\ UNCHANGED <<alive, NodeQueues, sendq, started, pc, ticket, outcome, accepted,
                   sent, submitted, taken>>
    /\ UNCHANGED <<crowd, checked>>
    /\ UNCHANGED storeVars

\* the run loop has exited and calls callback: it logs and starts to sleep
Callback(w) ==
    /\ alive
    /\ workers[w].state = "Crashed"
    /\ workers' = [workers EXCEPT ![w].state = "RestartPending", ![w].timer = BackoffDelay]
    /\ UNCHANGED <<alive, NodeQueues, sendq, started, pc, ticket, reply, outcome,
                   accepted, sent, submitted, taken>>
    /\ UNCHANGED <<crowd, checked>>
    /\ UNCHANGED storeVars

\* a second of time.Sleep(5 * time.Second) passes
Tick(w) ==
    /\ alive
    /\ workers[w].state = "RestartPending"
    /\ workers[w].timer > 0
    /\ workers' = [workers EXCEPT ![w].timer = @ - 1]
    /\ UNCHANGED <<alive, NodeQueues, sendq, started, pc, ticket, reply, outcome,
                   accepted, sent, submitted, taken>>
    /\ UNCHANGED <<crowd, checked>>
    /\ UNCHANGED storeVars

\* AddNodeProcess called for a type whose worker is still in its run loop
RestartWhileRunning(w) ==
    /\ alive
    /\ workers[w].state \in {"Running", "RestartPending"}
    /\ workers[w].timer = 0
    /\ \E runErr \in BOOLEAN :
          AddNodeProcess(workers[w].type, runErr,
                         IF workers[w].state = "Running" THEN workers
                         ELSE [workers EXCEPT ![w].state = "Replaced"])
    /\ UNCHANGED <<sendq, started, pc, ticket, reply, outcome, accepted, sent,
                   submitted, taken>>
    /\ UNCHANGED <<crowd, checked>>
    /\ UNCHANGED storeVars

\* the sleep is over: callback calls h.AddNodeProcess(nodeType, h.Log)
Restart(w) ==
    /\ alive
    /\ workers[w].state = "RestartPending"
    /\ workers[w].timer = 0
    /\ \E runErr \in BOOLEAN :
          AddNodeProcess(workers[w].type, runErr,
                         [workers EXCEPT ![w].state = "Replaced"])
    /\ UNCHANGED <<sendq, started, pc, ticket, reply, outcome, accepted, sent,
                   submitted, taken>>
    /\ UNCHANGED <<crowd, checked>>
    /\ UNCHANGED storeVars

\* ------------------------------------------------------------ dispatcher

\* neither the node lookup nor the permission check of ServeHTTP was reached
NotChecked == [lookup |-> "none", permitted |-> "none"]

NoTicket == [Node |-> ZeroNode, Action |-> ""]
NoChan == [state |-> "none", val |-> ZeroResponse]

\* a request task ends with `result` written to its ResponseWriter
Finish(r, result) ==
    /\ pc' = [pc EXCEPT ![r] = "done"]
    /\ outcome' = [outcome EXCEPT ![r] = result]

\* ServeHTTP without the permission check
ServeHTTPUnchecked(r, url, hostKnown, permitted) ==
    /\ alive
    /\ started = RegTypes
    /\ pc[r] = "idle"
    /\ \A earlier \in Requests : earlier < r => pc[earlier] /= "idle"
    /\ LET sa == splitAction(url)
           lk == lookupNode(files, sa.nodePath)
           early == (sa.action = "" /\ ~EndsWithSlash(sa.nodePath)) \/ ~hostKnown
       IN /\ checked' = [checked EXCEPT ![r] =
                            IF early THEN NotChecked
                            ELSE IF lk.err /= "" THEN [lookup |-> "err", permitted |-> "none"]
                            ELSE [lookup |-> "ok",
                                  permitted |-> IF permitted THEN "yes" ELSE "no"]]
          /\ IF sa.action = "" /\ ~EndsWithSlash(sa.nodePath)
             THEN Finish(r, HttpRedirect(Append(sa.nodePath, "")))
                  /\ UNCHANGED <<ticket, reply>>
             ELSE IF ~hostKnown
             THEN Finish(r, Recovered) /\ UNCHANGED <<ticket, reply>>
             ELSE IF lk.err /= ""
             THEN Finish(r, HttpError("Node not found", 404)) /\ UNCHANGED <<ticket, reply>>
             ELSE IF sa.action \in {"login", "logout", "add", "remove"}
             THEN \* h.Login, h.Logout, h.Add, h.Remove take the request over
                  /\ pc' = [pc EXCEPT ![r] = sa.action]
                  /\ UNCHANGED <<ticket, reply, outcome>>
             ELSE \* RequestNode: c := make(chan client.Response) and the ticket
                  /\ pc' = [pc EXCEPT ![r] = "QueueTicket"]
                  /\ ticket' = [ticket EXCEPT ![r] = [Node |-> lk.node, Action |-> sa.action]]
                  /\ reply' = [reply EXCEPT ![r] = [state |-> "open", val |-> ZeroResponse]]
                  /\ UNCHANGED outcome
    /\ UNCHANGED <<alive, NodeQueues, sendq, workers, started, accepted, sent,
                   submitted, taken>>
    /\ UNCHANGED <<crowd>>
    /\ UNCHANGED storeVars

\* ServeHTTP(w, r) up to the call of the action's handler; hostKnown is
\* whether h.Hosts has r.Host, permitted the result of checkPermission
ServeHTTP(r, url, hostKnown, permitted) ==
    /\ alive
    /\ started = RegTypes
    /\ pc[r] = "idle"
    /\ \A earlier \in Requests : earlier < r => pc[earlier] /= "idle"
    /\ LET sa == splitAction(url)
           lk == lookupNode(files, sa.nodePath)
           early == (sa.action = "" /\ ~EndsWithSlash(sa.nodePath)) \/ ~hostKnown
       IN /\ checked' = [checked EXCEPT ![r] =
                            IF early THEN NotChecked
                            ELSE IF lk.err /= "" THEN [lookup |-> "err", permitted |-> "none"]
                            ELSE [lookup |-> "ok",
                                  permitted |-> IF permitted THEN "yes" ELSE "no"]]
          /\ IF sa.action = "" /\ ~EndsWithSlash(sa.nodePath)
             THEN Finish(r, HttpRedirect(Append(sa.nodePath, "")))
                  /\ UNCHANGED <<ticket, reply>>
             ELSE IF ~hostKnown
             THEN Finish(r, Recovered) /\ UNCHANGED <<ticket, reply>>
             ELSE IF lk.err /= ""
             THEN Finish(r, HttpError("Node not found", 404)) /\ UNCHANGED <<ticket, reply>>
             ELSE IF ~permitted
             THEN Finish(r, HttpError("Unauthorized.", 401)) /\ UNCHANGED <<ticket, reply>>
             ELSE IF sa.action \in {"login", "logout", "add", "remove"}
             THEN \* h.Login, h.Logout, h.Add, h.Remove take the request over
                  /\ pc' = [pc EXCEPT ![r] = sa.action]
                  /\ UNCHANGED <<ticket, reply, outcome>>
             ELSE \* RequestNode: c := make(chan client.Response) and the ticket
                  /\ pc' = [pc EXCEPT ![r] = "QueueTicket"]
                  /\ ticket' = [ticket EXCEPT ![r] = [Node |-> lk.node, Action |-> sa.action]]
                  /\ reply' = [reply EXCEPT ![r] = [state |-> "open", val |-> ZeroResponse]]
                  /\ UNCHANGED outcome
    /\ UNCHANGED <<alive, NodeQueues, sendq, workers, started, accepted, sent,
                   submitted, taken>>
    /\ UNCHANGED <<crowd>>
    /\ UNCHANGED storeVars

\* QueueTicket without the test for a missing queue: the send on the nil
\* channel of a missing key blocks for ever
QueueTicketUnchecked(r) ==
    /\ alive
    /\ pc[r] = "QueueTicket"
    /\ LET nodeType == ticket[r].Node.Type
           q == NodeQueues[nodeType]
       IN /\ pc' = [pc EXCEPT ![r] = "send"]
          /\ sendq' = IF q = NoQueue THEN sendq ELSE [sendq EXCEPT ![q] = Append(@, r)]
          /\ submitted' = IF q = NoQueue THEN submitted
                          ELSE [submitted EXCEPT ![q] = Append(@, r)]
          /\ UNCHANGED outcome
    /\ UNCHANGED <<alive, NodeQueues, workers, started, ticket, reply, accepted, sent, taken>>
    /\ UNCHANGED <<crowd, checked>>
    /\ UNCHANGED storeVars

\* QueueTicket handing the send to a goroutine of its own: the ticket can
\* overtake the tickets parked before it
QueueTicketOvertaking(r) ==
    /\ alive
    /\ pc[r] = "QueueTicket"
    /\ LET nodeType == ticket[r].Node.Type
           q == NodeQueues[nodeType]
       IN IF q = NoQueue
          THEN /\ Finish(r, Recovered)
               /\ UNCHANGED <<sendq, submitted>>
          ELSE /\ pc' = [pc EXCEPT ![r] = "send"]
               /\ sendq' = [sendq EXCEPT ![q] = <<r>> \o @]
               /\ submitted' = [submitted EXCEPT ![q] = Append(@, r)]
               /\ UNCHANGED outcome
    /\ UNCHANGED <<alive, NodeQueues, workers, started, ticket, reply, accepted, sent, taken>>
    /\ UNCHANGED <<crowd, checked>>
    /\ UNCHANGED storeVars

\* QueueTicket(ticket): panics when the node type has no queue (ServeHTTP
\* recovers), else parks in the send on the type's queue
QueueTicket(r) ==
    /\ alive
    /\ pc[r] = "QueueTicket"
    /\ LET nodeType == ticket[r].Node.Type
           q == NodeQueues[nodeType]
       IN IF q = NoQueue
          THEN /\ Finish(r, Recovered)
               /\ UNCHANGED <<sendq, submitted>>
          ELSE /\ pc' = [pc EXCEPT ![r] = "send"]
               /\ sendq' = [sendq EXCEPT ![q] = Append(@, r)]
               /\ submitted' = [submitted EXCEPT ![q] = Append(@, r)]
               /\ UNCHANGED outcome
    /\ UNCHANGED <<alive, NodeQueues, workers, started, ticket, reply, accepted, sent, taken>>
    /\ UNCHANGED <<crowd, checked>>
    /\ UNCHANGED storeVars

\* res := <-c: the value sent, or the zero value when c is closed
Receive(ch) == IF ch.state = "closed" THEN ZeroResponse ELSE ch.val

\* RequestNode after the ticket is queued: res := <-c and ProcessNodeResponse
RequestNode(r, saveErr) ==
    /\ alive
    /\ pc[r] = "receive"
    /\ reply[r].state \in {"value", "closed"}
    /\ Finish(r, ProcessNodeResponse(Receive(reply[r]), ticket[r].Node,
                                     ticket[r].Action, saveErr))
    /\ reply' = [reply EXCEPT ![r].val = ZeroResponse]
    /\ UNCHANGED <<alive, NodeQueues, sendq, workers, started, ticket, accepted,
                   sent, submitted, taken>>
    /\ UNCHANGED <<crowd, checked>>
    /\ UNCHANGED storeVars

\* ------------------------------------------------------------ the daemon

\* the data directory the daemon serves
SiteDirs == {<<>>, <<"a">>, <<"b">>}
SiteFiles ==
    [p \in RelPaths |->
        IF p = <<>> THEN [exists |-> TRUE,
                          content |-> Marshal([Path |-> EmptyString, Type |-> "document",
                                               Title |-> "T1"])]
        ELSE IF p = <<"a">> THEN [exists |-> TRUE,
                                  content |-> Marshal([Path |-> EmptyString, Type |-> "video",
                                                       Title |-> "T2"])]
        ELSE IF p = <<"b">> THEN [exists |-> TRUE, content |-> BadYAML]
        ELSE NoFile]

NoStoreOp == [op |-> "none", path |-> EmptyString, node |-> ZeroNode, panic |-> FALSE,
              err |-> "", dirsBefore |-> {}]

\* ------------------------------------------------------------ navigation values

MaxNavLen == 2

\* the link targets: a node name, a path from the root, a path that climbs,
\* and the empty string
NavTargets == {<<>>, <<"a">>, <<"b">>, <<"/", "a">>, <<"..", "b">>}

\* navLink
NavLinks == {[Name |-> "n", Target |-> t, Active |-> a] : t \in NavTargets, a \in BOOLEAN}

\* navigation, a slice of navLink: nil, or the links it holds
NilNav == [isNil |-> TRUE, links |-> <<>>]
EmptyNav == [isNil |-> FALSE, links |-> <<>>]
Navs == {NilNav} \cup
        {[isNil |-> FALSE, links |-> l] : l \in UNION {[1..n -> NavLinks] : n \in 0..MaxNavLen}}

\* a navigation.yaml: the entries, each with the keys name and target, and
\* active when it is set
NoNavFile == [exists |-> FALSE, entries |-> <<>>]
NoNavFiles == [d \in RelPaths |-> NoNavFile]

NoNavCall == [op |-> "none", nav |-> NilNav, name |-> "", target |-> <<>>, base |-> <<>>,
              path |-> <<"/">>, recursive |-> FALSE, panic |-> FALSE, out |-> NilNav,
              again |-> NilNav, navRoot |-> <<>>]

\* ------------------------------------------------------------ tasks at the map

\* the goroutines that use h.NodeQueues: main, which starts the workers, a
\* request task, and per node type the restart callback of its worker
RegTasks == {"main", "request"} \cup AllTypes

NoRegPc == [pc |-> "idle", type |-> ""]

\* no call of getSidebar or getBelowHeader has been made
NoAttrRun == [pc |-> "idle", fn |-> "", start |-> <<"/">>, path |-> <<"/">>, visited |-> <<>>,
              result |-> <<>>]

NoProjection == [called |-> FALSE, res |-> ZeroResponse, node |-> ZeroNode, action |-> "",
                 saveErr |-> FALSE, out |-> NoOutcome]

DaemonInit ==
    /\ alive = TRUE
    /\ NodeQueues = [t \in AllTypes |-> NoQueue]
    /\ sendq = [q \in Channels |-> <<>>]
    /\ workers = [w \in WorkerIds |-> UnbornWorker]
    /\ started = {}
    /\ pc = [r \in Requests |-> "idle"]
    /\ ticket = [r \in Requests |-> NoTicket]
    /\ reply = [r \in Requests |-> NoChan]
    /\ outcome = [r \in Requests |-> NoOutcome]
    /\ accepted = [r \in Requests |-> 0]
    /\ sent = [r \in Requests |-> 0]
    /\ submitted = [q \in Channels |-> <<>>]
    /\ taken = [q \in Channels |-> <<>>]
    /\ crowd = 0
    /\ checked = [r \in Requests |-> NotChecked]
    /\ dirs = SiteDirs
    /\ files = SiteFiles
    /\ storeOp = NoStoreOp
    /\ storeOps = 0
    /\ projection = NoProjection

\* no sidebar or header file, and no call of getSidebar or getBelowHeader
AttrIdle ==
    /\ attrFiles = {}
    /\ attrRun = NoAttrRun

\* no navigation file, and no navigation in the hands of a handler
NavIdle ==
    /\ navFiles = NoNavFiles
    /\ navCall = NoNavCall
    /\ nav = NilNav
    /\ navOps = 0

\* no task is at the map of the queues
RegIdle ==
    /\ regPc = [T \in RegTasks |-> NoRegPc]
    /\ regAccess = [T \in RegTasks |-> "none"]
    /\ regProc = [t \in AllTypes |-> "none"]

\* the daemon after construction
Init ==
    /\ DaemonInit
    /\ AttrIdle
    /\ NavIdle
    /\ RegIdle

Next ==
    \/ \E t \in RegTypes : Startup(t)
    \/ \E w \in WorkerIds : WorkerHandshake(w)
    \/ \E w \in WorkerIds : WorkerHandshakeFail(w)
    \/ \E w \in WorkerIds : WorkerAccept(w)
    \/ \E w \in WorkerIds, res \in WorkerResponses : WorkerReply(w, res)
    \/ \E w \in WorkerIds : WorkerCrash(w)
    \/ \E w \in WorkerIds : Callback(w)
    \/ \E w \in WorkerIds : Tick(w)
    \/ \E w \in WorkerIds : Restart(w)
    \/ \E r \in Requests, url \in URLs, hostKnown \in BOOLEAN, permitted \in BOOLEAN :
          ServeHTTP(r, url, hostKnown, permitted)
    \/ \E r \in Requests : QueueTicket(r)
    \/ \E r \in Requests, saveErr \in BOOLEAN : RequestNode(r, saveErr)

Spec == Init /\ [][Next]_vars

\* ------------------------------------------------------------ the content store alone

MaxStoreOps == 3

StoreTypes == {"document", "video"}

\* the nodes written: every absolute path below the root
StoreNodes == {[Path |-> p, Type |-> t, Title |-> ti] :
                  p \in AbsPaths, t \in StoreTypes, ti \in Titles}

\* writeNode(node, root) called on the store
StoreWrite(node) ==
    /\ storeOps < MaxStoreOps
    /\ LET res == writeNode(dirs, files, node)
       IN /\ dirs' = res.dirs
          /\ files' = res.files
          /\ storeOp' = [op |-> "write", path |-> node.Path, node |-> node,
                         panic |-> res.panic, err |-> res.err, dirsBefore |-> dirs]
    /\ storeOps' = storeOps + 1
    /\ UNCHANGED <<projection, attrVars, navVars, regVars>>
    /\ UNCHANGED dispatchVars

\* lookupNode(root, path) called on the store
StoreLookup(path) ==
    /\ storeOps < MaxStoreOps
    /\ LET res == lookupNode(files, path)
       IN storeOp' = [op |-> "lookup", path |-> path, node |-> res.node,
                      panic |-> FALSE, err |-> res.err, dirsBefore |-> dirs]
    /\ storeOps' = storeOps + 1
    /\ UNCHANGED <<dirs, files, projection, attrVars, navVars, regVars>>
    /\ UNCHANGED dispatchVars

\* a data directory that holds nothing but the root
StoreInit ==
    /\ alive = TRUE
    /\ NodeQueues = [t \in AllTypes |-> NoQueue]
    /\ sendq = [q \in Channels |-> <<>>]
    /\ workers = [w \in WorkerIds |-> UnbornWorker]
    /\ started = {}
    /\ pc = [r \in Requests |-> "idle"]
    /\ ticket = [r \in Requests |-> NoTicket]
    /\ reply = [r \in Requests |-> NoChan]
    /\ outcome = [r \in Requests |-> NoOutcome]
    /\ accepted = [r \in Requests |-> 0]
    /\ sent = [r \in Requests |-> 0]
    /\ submitted = [q \in Channels |-> <<>>]
    /\ taken = [q \in Channels |-> <<>>]
    /\ crowd = 0
    /\ checked = [r \in Requests |-> NotChecked]
    /\ dirs = {<<>>}
    /\ files = [p \in RelPaths |-> NoFile]
    /\ storeOp = NoStoreOp
    /\ storeOps = 0
    /\ projection = NoProjection
    /\ AttrIdle
    /\ NavIdle
    /\ RegIdle

StoreNext ==
    \/ \E node \in StoreNodes : StoreWrite(node)
    \/ \E path \in AbsPaths : StoreLookup(path)

StoreSpec == StoreInit /\ [][StoreNext]_vars

\* ------------------------------------------------------------ the projector alone

\* the items a response is projected for
ProjNodes == {[Path |-> p, Type |-> "document", Title |-> "T1"] :
                 p \in {<<"/">>, <<"/", "a">>, <<"/", "a", "">>}}

\* ProcessNodeResponse called with a response, an item and an action
Project(res, node, action, saveErr) ==
    /\ ~projection.called
    /\ projection' = [called |-> TRUE, res |-> res, node |-> node, action |-> action,
                      saveErr |-> saveErr,
                      out |-> ProcessNodeResponse(res, node, action, saveErr)]
    /\ UNCHANGED <<dirs, files, storeOp, storeOps, attrVars, navVars, regVars>>
    /\ UNCHANGED dispatchVars

ProjNext ==
    \E res \in Responses, node \in ProjNodes, action \in {"", "view", "edit"},
       saveErr \in BOOLEAN : Project(res, node, action, saveErr)

ProjSpec == Init /\ [][ProjNext]_vars

\* ------------------------------------------------------------ inherited page parts

\* filepath.Dir of an absolute path: the path without its last element, and
\* "/" for "/"
Dir(path) == IF Len(path) <= 1 THEN path ELSE SubSeq(path, 1, Len(path) - 1)

\* the paths getSidebar and getBelowHeader are called with: the path of a
\* node, as the URL gave it, with or without a trailing slash
AttrPaths == AbsPaths \cup {p \o <<"">> : p \in AbsPaths \ {<<"/">>}}

AttrNames == {"sidebar.html", "below_header.html"}

\* filepath.Join(root, path, name): the file `name` in the directory of path
AttrFile(name, path) == <<name, Join(Tail(path))>>

\* ioutil.ReadFile of that file: err != nil when it does not exist
AttrMissing(name, path) == AttrFile(name, path) \notin attrFiles

\* string(content): every file has a content of its own
AttrContent(name, path) == AttrFile(name, path)

\* the directory of path and the directories above it, up to the data root
Chain(path) ==
    LET d == Join(Tail(path)) IN {SubSeq(d, 1, i) : i \in 0..Len(d)}

\* getBelowHeader with the upward search of getSidebar
getBelowHeaderInherits ==
    /\ attrRun.pc = "idle"
    /\ LET name == "below_header.html"
           found == {d \in Chain(attrRun.start) : <<name, d>> \in attrFiles}
           nearest == CHOOSE d \in found : \A e \in found : Len(e) <= Len(d)
       IN attrRun' = [attrRun EXCEPT !.pc = "done", !.fn = "getBelowHeader",
                         !.visited = <<attrRun.start>>,
                         !.result = IF found = {} THEN <<>> ELSE <<name, nearest>>]
    /\ UNCHANGED <<attrFiles, dirs, files, storeOp, storeOps, projection, navVars, regVars>>
    /\ UNCHANGED dispatchVars

\* getBelowHeader(path, root): the file of the node itself, or ""
getBelowHeader ==
    /\ attrRun.pc = "idle"
    /\ LET name == "below_header.html"
       IN attrRun' = [attrRun EXCEPT !.pc = "done", !.fn = "getBelowHeader",
                         !.visited = <<attrRun.start>>,
                         !.result = IF AttrMissing(name, attrRun.start) THEN <<>>
                                    ELSE AttrContent(name, attrRun.start)]
    /\ UNCHANGED <<attrFiles, dirs, files, storeOp, storeOps, projection, navVars, regVars>>
    /\ UNCHANGED dispatchVars

\* getSidebar(path, root) is called
getSidebarEnter ==
    /\ attrRun.pc = "idle"
    /\ attrRun' = [attrRun EXCEPT !.pc = "loop", !.fn = "getSidebar",
                      !.path = attrRun.start]
    /\ UNCHANGED <<attrFiles, dirs, files, storeOp, storeOps, projection, navVars, regVars>>
    /\ UNCHANGED dispatchVars

\* the loop of getSidebar without the test for the root
getSidebarLoopEndless ==
    /\ attrRun.pc = "loop"
    /\ Len(attrRun.visited) <= MaxDepth + 3
    /\ LET name == "sidebar.html"
           path == attrRun.path
       IN attrRun' =
             IF AttrMissing(name, path)
             THEN [attrRun EXCEPT !.visited = Append(@, path), !.path = Dir(path)]
             ELSE [attrRun EXCEPT !.visited = Append(@, path), !.pc = "done",
                      !.result = AttrContent(name, path)]
    /\ UNCHANGED <<attrFiles, dirs, files, storeOp, storeOps, projection, navVars, regVars>>
    /\ UNCHANGED dispatchVars

\* one iteration of the loop of getSidebar
getSidebarLoop ==
    /\ attrRun.pc = "loop"
    /\ LET name == "sidebar.html"
           path == attrRun.path
       IN attrRun' =
             IF AttrMissing(name, path)
             THEN IF path = Dir(path)
                  THEN [attrRun EXCEPT !.visited = Append(@, path), !.pc = "done",
                           !.result = <<>>]
                  ELSE [attrRun EXCEPT !.visited = Append(@, path), !.path = Dir(path)]
             ELSE [attrRun EXCEPT !.visited = Append(@, path), !.pc = "done",
                      !.result = AttrContent(name, path)]
    /\ UNCHANGED <<attrFiles, dirs, files, storeOp, storeOps, projection, navVars, regVars>>
    /\ UNCHANGED dispatchVars

\* a node path, and any files of the two kinds in its directory and above
AttrInit ==
    /\ DaemonInit
    /\ NavIdle
    /\ RegIdle
    /\ \E start \in AttrPaths :
          /\ attrRun = [NoAttrRun EXCEPT !.start = start, !.path = start]
          /\ attrFiles \in SUBSET (AttrNames \X Chain(start))

AttrNext ==
    \/ getBelowHeader
    \/ getSidebarEnter
    \/ getSidebarLoop

AttrSpec == AttrInit /\ [][AttrNext]_vars

\* ------------------------------------------------------------ navigation functions

\* path.Clean on the elements after the root: "" and "." are dropped, ".."
\* removes the element before it, or is dropped at the root
RECURSIVE CleanElems(_, _, _)
CleanElems(rooted, done, rest) ==
    IF rest = <<>> THEN done
    ELSE LET e == Head(rest)
         IN IF e = "" \/ e = "." THEN CleanElems(rooted, done, Tail(rest))
            ELSE IF e = ".."
                 THEN IF done /= <<>> /\ done[Len(done)] /= ".."
                      THEN CleanElems(rooted, SubSeq(done, 1, Len(done) - 1), Tail(rest))
                      ELSE IF rooted THEN CleanElems(rooted, done, Tail(rest))
                      ELSE CleanElems(rooted, Append(done, e), Tail(rest))
                 ELSE CleanElems(rooted, Append(done, e), Tail(rest))

\* path.Join(root, target): the two joined by a separator, then cleaned
pathJoin(root, target) ==
    LET joined == root \o target
        rooted == joined /= <<>> /\ Head(joined) = "/"
        elems == CleanElems(rooted, <<>>, IF rooted THEN Tail(joined) ELSE joined)
    IN IF rooted THEN <<"/">> \o elems
       ELSE IF elems = <<>> /\ joined /= <<>> THEN <<".">> ELSE elems

\* nav.Add(name, target)
Add(n, name, target) ==
    [isNil |-> FALSE,
     links |-> Append(n.links, [Name |-> name, Target |-> target, Active |-> FALSE])]

\* a Remove that keeps every link
RemoveNothing(n, target) ==
    [panic |-> FALSE, nav |-> [isNil |-> FALSE, links |-> n.links]]

\* nav.Remove(target): make(navigation, 0, len(*nav)-1) panics when the
\* capacity is negative
Remove(n, target) ==
    IF Len(n.links) - 1 < 0 THEN [panic |-> TRUE, nav |-> n]
    ELSE [panic |-> FALSE,
          nav |-> [isNil |-> FALSE,
                   links |-> SelectSeq(n.links, LAMBDA v : v.Target /= target)]]

\* nav.MakeAbsolute(root): Target[0] panics on an empty target
MakeAbsolute(n, root) ==
    IF \E i \in 1..Len(n.links) : n.links[i].Target = <<>> THEN [panic |-> TRUE, nav |-> n]
    ELSE [panic |-> FALSE,
          nav |-> [isNil |-> n.isNil,
                   links |-> [i \in 1..Len(n.links) |->
                                 IF Head(n.links[i].Target) /= "/"
                                 THEN [n.links[i] EXCEPT
                                          !.Target = pathJoin(root, n.links[i].Target)]
                                 ELSE n.links[i]]]]

\* the root paths MakeAbsolute is given: paths from the root, the empty
\* string and a relative path
NavBases == {<<"/">>, <<"/", "a">>, <<>>, <<"a">>}

\* nav.Add(name, target) followed by nav.Remove(target)
CallAddRemove(n, name, target) ==
    /\ navCall.op = "none"
    /\ LET res == Remove(Add(n, name, target), target)
       IN navCall' = [NoNavCall EXCEPT !.op = "AddRemove", !.nav = n, !.name = name,
                         !.target = target, !.panic = res.panic, !.out = res.nav]
    /\ UNCHANGED <<navFiles, nav, navOps, attrVars, regVars>>
    /\ UNCHANGED <<dirs, files, storeOp, storeOps, projection>>
    /\ UNCHANGED dispatchVars

\* nav.Remove(target)
CallRemove(n, target) ==
    /\ navCall.op = "none"
    /\ LET res == Remove(n, target)
       IN navCall' = [NoNavCall EXCEPT !.op = "Remove", !.nav = n, !.target = target,
                         !.panic = res.panic, !.out = res.nav]
    /\ UNCHANGED <<navFiles, nav, navOps, attrVars, regVars>>
    /\ UNCHANGED <<dirs, files, storeOp, storeOps, projection>>
    /\ UNCHANGED dispatchVars

\* nav.MakeAbsolute(root), and nav.MakeAbsolute(root) once more
CallMakeAbsolute(n, root) ==
    /\ navCall.op = "none"
    /\ LET once == MakeAbsolute(n, root)
           twice == MakeAbsolute(once.nav, root)
       IN navCall' = [NoNavCall EXCEPT !.op = "MakeAbsolute", !.nav = n, !.base = root,
                         !.panic = once.panic \/ twice.panic, !.out = once.nav,
                         !.again = twice.nav]
    /\ UNCHANGED <<navFiles, nav, navOps, attrVars, regVars>>
    /\ UNCHANGED <<dirs, files, storeOp, storeOps, projection>>
    /\ UNCHANGED dispatchVars

NavFnNext ==
    \/ \E n \in Navs, target \in NavTargets : CallAddRemove(n, "m", target)
    \/ \E n \in Navs, target \in NavTargets : CallRemove(n, target)
    \/ \E n \in Navs, root \in NavBases : CallMakeAbsolute(n, root)

NavFnSpec == Init /\ [][NavFnNext]_vars

\* ------------------------------------------------------------ getNav

\* goyaml.Unmarshal(content, &navLinks): one link appended per entry, so that
\* a file without entries, like no content at all, leaves the slice nil
UnmarshalNav(entries) ==
    [isNil |-> Len(entries) = 0,
     links |-> [i \in 1..Len(entries) |->
                   [Name |-> entries[i].name, Target |-> entries[i].target,
                    Active |-> entries[i].active]]]

\* goyaml.Marshal(&nav): the key active is written when the flag is set
MarshalNav(n) ==
    [i \in 1..Len(n.links) |->
        [name |-> n.links[i].Name, target |-> n.links[i].Target,
         active |-> n.links[i].Active]]

\* the search loop of getNav: whether a navigation.yaml was read, the
\* nodePath and the hasNav it ends with
RECURSIVE getNavLoop(_, _, _, _)
getNavLoop(fs, nodePath, recursive, hasNav) ==
    IF ~fs[Join(Tail(nodePath))].exists
    THEN LET up == Dir(nodePath)
         IN IF ~recursive \/ up = Dir(up)
            THEN [found |-> FALSE, nodePath |-> up, hasNav |-> FALSE]
            ELSE getNavLoop(fs, up, recursive, FALSE)
    ELSE [found |-> TRUE, nodePath |-> nodePath, hasNav |-> hasNav]

\* a marking loop without its break: every link to the active node is marked
MarkActiveAll(links, active) ==
    [i \in 1..Len(links) |->
        IF links[i].Target = active THEN [links[i] EXCEPT !.Active = TRUE] ELSE links[i]]

\* the marking loop of getNav: the first link to the active node is marked
MarkActive(links, active) ==
    LET hits == {i \in 1..Len(links) : links[i].Target = active}
    IN [i \in 1..Len(links) |->
           IF i \in hits /\ (\A j \in hits : i <= j)
           THEN [links[i] EXCEPT !.Active = TRUE] ELSE links[i]]

\* getNav(nodePath, active, recursive, root)
getNav(fs, nodePath, active, recursive) ==
    LET loop == getNavLoop(fs, nodePath, recursive, TRUE)
        content == IF loop.found THEN fs[Join(Tail(loop.nodePath))].entries ELSE <<>>
        navLinks == UnmarshalNav(content)
        marked == [navLinks EXCEPT !.links = MarkActive(navLinks.links, active)]
    IN [nav |-> IF Len(marked.links) = 0 /\ loop.hasNav THEN EmptyNav ELSE marked,
        navRoot |-> IF loop.found /\ recursive THEN loop.nodePath ELSE <<>>]

\* an entry of a navigation.yaml as Dump writes it
NavEntry(t) == [name |-> "n", target |-> t, active |-> FALSE]

\* what a navigation.yaml holds: no entry, or entries, also two to one target
NavFileContents ==
    {<<>>, <<NavEntry(<<"a">>), NavEntry(<<"a">>)>>, <<NavEntry(<<"b">>), NavEntry(<<"a">>)>>}

\* the navigation.yaml files in the directory of path and above it and none
\* elsewhere, pick[i] telling the file of the directory i levels down: 0 for
\* no file, and else one of the contents
NavFilesOn(path, pick) ==
    [d \in RelPaths |->
        IF d \in Chain(path) /\ pick[Len(d)] /= <<0>>
        THEN [exists |-> TRUE, entries |-> pick[Len(d)]]
        ELSE NoNavFile]

\* getNav called on its own
CallGetNav(active, recursive) ==
    /\ navCall.op = "none"
    /\ LET res == getNav(navFiles, navCall.path, active, recursive)
       IN navCall' = [navCall EXCEPT !.op = "getNav", !.target = active,
                         !.recursive = recursive, !.out = res.nav,
                         !.navRoot = res.navRoot]
    /\ UNCHANGED <<navFiles, nav, navOps, attrVars, regVars>>
    /\ UNCHANGED <<dirs, files, storeOp, storeOps, projection>>
    /\ UNCHANGED dispatchVars

\* a node path, and any navigation files in its directory and above
GetNavInit ==
    /\ DaemonInit
    /\ AttrIdle
    /\ RegIdle
    /\ nav = NilNav
    /\ navOps = 0
    /\ \E path \in AttrPaths :
          /\ navCall = [NoNavCall EXCEPT !.path = path]
          /\ \E pick \in [0..MaxDepth -> NavFileContents \cup {<<0>>}] :
                /\ \A i \in 0..MaxDepth : i > Len(Join(Tail(path))) => pick[i] = <<0>>
                /\ navFiles = NavFilesOn(path, pick)

GetNavNext ==
    \E active \in {<<>>, <<"a">>, <<"b">>}, recursive \in BOOLEAN :
        CallGetNav(active, recursive)

GetNavSpec == GetNavInit /\ [][GetNavNext]_vars

\* ------------------------------------------------------------ navigation files

MaxNavOps == 3

\* the paths of the nodes whose navigation the handlers work on
NavPaths == {<<"/">>, <<"/", "a">>, <<"/", "a", "">>}

\* nav.Dump(nodePath, root) with the flags left as they are
DumpAsIs(nfs, ds, n, nodePath) ==
    LET dir == Join(Tail(nodePath))
    IN IF dir \notin ds THEN [panic |-> TRUE, navFiles |-> nfs, nav |-> n]
       ELSE [panic |-> FALSE, nav |-> n,
             navFiles |-> [nfs EXCEPT ![dir] = [exists |-> TRUE, entries |-> MarshalNav(n)]]]

\* nav.Dump(nodePath, root): every flag is cleared, in the links of the
\* caller too, and the links are written to the navigation.yaml of the
\* directory; ioutil.WriteFile fails, and Dump panics, without the directory
Dump(nfs, ds, n, nodePath) ==
    LET cleared == [isNil |-> n.isNil,
                    links |-> [i \in 1..Len(n.links) |->
                                  [n.links[i] EXCEPT !.Active = FALSE]]]
        dir == Join(Tail(nodePath))
    IN IF dir \notin ds THEN [panic |-> TRUE, navFiles |-> nfs, nav |-> cleared]
       ELSE [panic |-> FALSE, nav |-> cleared,
             navFiles |-> [nfs EXCEPT ![dir] = [exists |-> TRUE,
                                                 entries |-> MarshalNav(cleared)]]]

\* filepath.Base(path): the last element, trailing slashes apart
Base(path) ==
    LET clean == Join(Tail(path))
    IN IF clean = <<>> THEN <<"/">> ELSE <<clean[Len(clean)]>>

\* dir is the directory top or below it
Below(top, dir) == Len(dir) >= Len(top) /\ SubSeq(dir, 1, Len(top)) = top

\* removeNode(path, root): the link is taken out of the navigation of
\* filepath.Dir(path), then os.RemoveAll removes the directory of the node
removeNode(ds, fs, nfs, path) ==
    LET top == Join(Tail(path))
        parent == Dir(path)
        removed == Remove(getNav(nfs, parent, <<>>, FALSE).nav, Base(path))
        dumped == IF parent = path THEN [panic |-> FALSE, navFiles |-> nfs]
                  ELSE IF removed.panic THEN [panic |-> TRUE, navFiles |-> nfs]
                  ELSE Dump(nfs, ds, removed.nav, parent)
    IN IF dumped.panic
       THEN [panic |-> TRUE, dirs |-> ds, files |-> fs, navFiles |-> dumped.navFiles]
       ELSE [panic |-> FALSE,
             dirs |-> {d \in ds : ~Below(top, d)},
             files |-> [d \in RelPaths |-> IF Below(top, d) THEN NoFile ELSE fs[d]],
             navFiles |-> [d \in RelPaths |->
                              IF Below(top, d) THEN NoNavFile ELSE dumped.navFiles[d]]]

\* what the navigation operations leave alone
navRest == <<storeOp, storeOps, projection, attrVars, regVars, dispatchVars>>

\* getNav called by a handler
NavResolve(path, active, recursive) ==
    /\ navOps < MaxNavOps
    /\ nav' = getNav(navFiles, path, active, recursive).nav
    /\ navCall' = [NoNavCall EXCEPT !.op = "getNav"]
    /\ navOps' = navOps + 1
    /\ UNCHANGED <<navFiles, dirs, files>>
    /\ UNCHANGED navRest

\* nav.Add called by a handler
NavAdd(name, target) ==
    /\ navOps < MaxNavOps
    /\ nav' = Add(nav, name, target)
    /\ navCall' = [NoNavCall EXCEPT !.op = "Add"]
    /\ navOps' = navOps + 1
    /\ UNCHANGED <<navFiles, dirs, files>>
    /\ UNCHANGED navRest

\* nav.Remove called by a handler; a panic ends the request
NavRemove(target) ==
    /\ navOps < MaxNavOps
    /\ LET res == Remove(nav, target)
       IN /\ nav' = IF res.panic THEN NilNav ELSE res.nav
          /\ navCall' = [NoNavCall EXCEPT !.op = "Remove", !.panic = res.panic]
    /\ navOps' = navOps + 1
    /\ UNCHANGED <<navFiles, dirs, files>>
    /\ UNCHANGED navRest

\* nav.Dump called by a handler
NavDump(nodePath) ==
    /\ navOps < MaxNavOps
    /\ LET res == Dump(navFiles, dirs, nav, nodePath)
       IN /\ nav' = res.nav
          /\ navFiles' = res.navFiles
          /\ navCall' = [NoNavCall EXCEPT !.op = "Dump", !.nav = nav, !.path = nodePath,
                            !.panic = res.panic]
    /\ navOps' = navOps + 1
    /\ UNCHANGED <<dirs, files>>
    /\ UNCHANGED navRest

\* h.Add on a POST with a filled form: the node is written, its link is
\* added to the navigation of the node it is added to
HandlerAdd(node, type, name, title) ==
    /\ navOps < MaxNavOps
    /\ lookupNode(files, node.Path).err = ""
    /\ LET newPath == <<"/">> \o Join(Tail(node.Path)) \o <<name>>
           wrote == writeNode(dirs, files, [Path |-> newPath, Type |-> type, Title |-> title])
           got == getNav(navFiles, node.Path, <<>>, FALSE).nav
           dumped == Dump(navFiles, wrote.dirs, Add(got, title, <<name>>), node.Path)
       IN /\ dirs' = wrote.dirs
          /\ files' = wrote.files
          /\ navFiles' = IF wrote.panic THEN navFiles ELSE dumped.navFiles
          /\ navCall' = [NoNavCall EXCEPT !.op = "h.Add", !.nav = got, !.path = node.Path,
                            !.panic = wrote.panic \/ dumped.panic]
    /\ navOps' = navOps + 1
    /\ UNCHANGED <<nav>>
    /\ UNCHANGED navRest

\* h.Remove on a POST with a filled form
HandlerRemove(node) ==
    /\ navOps < MaxNavOps
    /\ lookupNode(files, node.Path).err = ""
    /\ LET res == removeNode(dirs, files, navFiles, node.Path)
       IN /\ dirs' = res.dirs
          /\ files' = res.files
          /\ navFiles' = res.navFiles
          /\ navCall' = [NoNavCall EXCEPT !.op = "h.Remove", !.path = node.Path,
                            !.panic = res.panic]
    /\ navOps' = navOps + 1
    /\ UNCHANGED <<nav>>
    /\ UNCHANGED navRest

\* the site of the daemon, the root with a navigation of two links and no
\* navigation below it
NavInit ==
    /\ DaemonInit
    /\ AttrIdle
    /\ RegIdle
    /\ navFiles = [NoNavFiles EXCEPT
                      ![<<>>] = [exists |-> TRUE,
                                 entries |-> <<NavEntry(<<"a">>), NavEntry(<<"b">>)>>]]
    /\ navCall = NoNavCall
    /\ nav = NilNav
    /\ navOps = 0

NavNext ==
    \/ \E path \in NavPaths, active \in {<<>>, <<"a">>}, recursive \in BOOLEAN :
          NavResolve(path, active, recursive)
    \/ \E target \in {<<"a">>, <<"b">>} : NavAdd("n", target)
    \/ \E target \in {<<"a">>, <<"b">>} : NavRemove(target)
    \/ \E nodePath \in NavPaths : NavDump(nodePath)
    \/ \E path \in NavPaths, name \in Names :
          HandlerAdd([Path |-> path, Type |-> "document", Title |-> "T1"],
                     "document", name, "T2")
    \/ \E path \in NavPaths :
          HandlerRemove([Path |-> path, Type |-> "document", Title |-> "T1"])

NavSpec == NavInit /\ [][NavNext]_vars

\* ------------------------------------------------------------ the map of the queues

\* the kind of access to h.NodeQueues made at a place of the code: the
\* lookups of AddNodeProcess and QueueTicket read, the assignment writes
RegAccessAt ==
    [a178 |-> "read", a179 |-> "write", a182 |-> "read", q35 |-> "read", q38 |-> "read"]

\* what the tasks at the map leave alone
regRest == <<sendq, workers, pc, ticket, reply, outcome, accepted, sent, submitted,
             taken, crowd, checked, dirs, files, storeOp, storeOps, projection,
             attrVars, navVars>>

\* main calls AddNodeProcess for the next of the node types of the settings
RegMain(t) ==
    /\ alive
    /\ regPc["main"].pc = "idle"
    /\ t \in AllTypes \ started
    /\ started' = started \cup {t}
    /\ regPc' = [regPc EXCEPT !["main"] = [pc |-> "a178", type |-> t]]
    /\ UNCHANGED <<alive, NodeQueues, regAccess, regProc>>
    /\ UNCHANGED regRest

\* a task starts the access to the map that it has come to
RegBegin(T) ==
    /\ alive
    /\ regPc[T].pc \in DOMAIN RegAccessAt
    /\ regAccess[T] = "none"
    /\ regAccess' = [regAccess EXCEPT ![T] = RegAccessAt[regPc[T].pc]]
    /\ UNCHANGED <<alive, NodeQueues, started, regPc, regProc>>
    /\ UNCHANGED regRest

\* the access is over: the task goes on with what it has read or written
RegEnd(T) ==
    /\ alive
    /\ regAccess[T] /= "none"
    /\ regAccess' = [regAccess EXCEPT ![T] = "none"]
    /\ LET at == regPc[T].pc
           t == regPc[T].type
           missing == NodeQueues[t] = NoQueue
       IN /\ NodeQueues' = IF at = "a179" THEN [NodeQueues EXCEPT ![t] = NewChan]
                           ELSE NodeQueues
          /\ regPc' = [regPc EXCEPT ![T].pc =
                          IF at = "a178" THEN (IF missing THEN "a179" ELSE "a182")
                          ELSE IF at = "a179" THEN "a182"
                          ELSE IF at = "a182" THEN "run"
                          ELSE IF at = "q35" THEN (IF missing THEN "idle" ELSE "q38")
                          ELSE "idle"]
    /\ UNCHANGED <<alive, started, regProc>>
    /\ UNCHANGED regRest

\* worker.Run(callback) at the end of AddNodeProcess: the process is started,
\* or the error makes the daemon panic
RegRun(T, runErr) ==
    /\ alive
    /\ regPc[T].pc = "run"
    /\ regPc' = [regPc EXCEPT ![T] = NoRegPc]
    /\ IF runErr
       THEN alive' = FALSE /\ UNCHANGED regProc
       ELSE /\ regProc' = [regProc EXCEPT ![regPc[T].type] = "running"]
            /\ UNCHANGED alive
    /\ UNCHANGED <<NodeQueues, started, regAccess>>
    /\ UNCHANGED regRest

\* the worker process of a node type exits: its callback starts to sleep
RegExit(t) ==
    /\ alive
    /\ regProc[t] = "running"
    /\ regProc' = [regProc EXCEPT ![t] = "exited"]
    /\ regPc' = [regPc EXCEPT ![t] = [pc |-> "sleep", type |-> t]]
    /\ UNCHANGED <<alive, NodeQueues, started, regAccess>>
    /\ UNCHANGED regRest

\* the sleep of the callback is over: it calls AddNodeProcess
RegWake(t) ==
    /\ alive
    /\ regPc[t].pc = "sleep"
    /\ regPc' = [regPc EXCEPT ![t].pc = "a178"]
    /\ UNCHANGED <<alive, NodeQueues, started, regAccess, regProc>>
    /\ UNCHANGED regRest

\* a request task calls QueueTicket for a node of type t; requests are served
\* once main has started the workers
RegRequest(t) ==
    /\ alive
    /\ started = AllTypes
    /\ regPc["main"].pc = "idle"
    /\ regPc["request"].pc = "idle"
    /\ regPc' = [regPc EXCEPT !["request"] = [pc |-> "q35", type |-> t]]
    /\ UNCHANGED <<alive, NodeQueues, started, regAccess, regProc>>
    /\ UNCHANGED regRest

RegNext ==
    \/ \E t \in AllTypes : RegMain(t)
    \/ \E T \in RegTasks : RegBegin(T)
    \/ \E T \in RegTasks : RegEnd(T)
    \/ \E T \in RegTasks, runErr \in BOOLEAN : RegRun(T, runErr)
    \/ \E t \in AllTypes : RegExit(t)
    \/ \E t \in AllTypes : RegWake(t)
    \/ \E t \in AllTypes : RegRequest(t)

\* the daemon with both node types in its settings
RegSpec == Init /\ [][RegNext]_vars

\* ------------------------------------------------------------ scheduling

\* every goroutine that can take a step eventually takes one: the restart
\* callback, its sleep, the relaunch, a started worker process and its run
\* loop, and the request tasks
Fairness ==
    /\ \A t \in RegTypes : WF_vars(Startup(t))
    /\ \A w \in WorkerIds :
          /\ WF_vars(WorkerHandshake(w) \/ WorkerHandshakeFail(w))
          /\ WF_vars(WorkerAccept(w))
          /\ WF_vars((\E res \in WorkerResponses : WorkerReply(w, res)) \/ WorkerCrash(w))
          /\ WF_vars(Callback(w))
          /\ WF_vars(Tick(w))
          /\ WF_vars(Restart(w))
    /\ \A r \in Requests :
          /\ WF_vars(QueueTicket(r))
          /\ WF_vars(\E saveErr \in BOOLEAN : RequestNode(r, saveErr))

FairSpec == Spec /\ Fairness

\* ------------------------------------------------------------ properties

\* the number of times request r occurs in the sequences of f, one per channel
Occurrences(f, r) ==
    Cardinality(UNION {{<<c, i>> : i \in {j \in 1..Len(f[c]) : f[c][j] = r}} :
                          c \in Channels})

\* the ticket of r was received by a worker that died before it replied: its
\* reply channel was closed with nothing sent on it
Lost(r) == reply[r].state = "closed"

\* C1: when the reply path of a ticket is closed with no value sent on it, the
\* requester observes a WorkerLost failure, an outcome distinct from every
\* outcome produced for a received Response, the MalformedResponse outcome of
\* a received empty Response included.
C1_WorkerLostIsDistinct ==
    \A r \in Requests :
        (pc[r] = "done" /\ Lost(r)) =>
            \A res \in Responses, saveErr \in BOOLEAN :
                outcome[r] /= ProcessNodeResponse(res, ticket[r].Node,
                                                  ticket[r].Action, saveErr)

\* C2: tickets enqueued concurrently for one registered content-type with one
\* worker on its queue are each delivered to exactly one consumer: a ticket
\* that was sent is either still parked, once, on the queue the type's worker
\* reads, or was received exactly once; none is received twice, none is lost.
C2_DeliveredExactlyOnce ==
    /\ \A r \in Requests :
          LET q == NodeQueues[ticket[r].Node.Type]
          IN /\ accepted[r] <= 1
             /\ Occurrences(submitted, r) <= 1
             /\ Occurrences(taken, r) = accepted[r]
             /\ Occurrences(submitted, r) = Occurrences(sendq, r) + accepted[r]
             /\ pc[r] = "send" <=> Occurrences(sendq, r) = 1
             /\ pc[r] = "send" =>
                   /\ q /= NoQueue
                   /\ \E i \in 1..Len(sendq[q]) : sendq[q][i] = r
             /\ pc[r] = "receive" => accepted[r] = 1
    /\ \A w \in WorkerIds :
          workers[w].state \in {"Starting", "Running"} =>
              workers[w].queue = NodeQueues[workers[w].type]

\* two senders were parked on the queue at once and every ticket sent was received
C2_Witness ==
    /\ crowd >= 2
    /\ \E q \in Channels : Len(taken[q]) >= 2 /\ sendq[q] = <<>>
    /\ \A r \in Requests : pc[r] /= "idle" => accepted[r] = 1

\* a worker whose run loop has exited
Exited(w) == workers[w].state \in {"Crashed", "RestartPending", "Replaced"}

\* C3: whenever a worker's run loop exits, a new worker for the same
\* content-type is eventually launched on the same queue, and every ticket
\* whose enqueue was blocked during the gap is eventually received by a worker.
C3_RestartDelivers ==
    /\ \A w \in WorkerIds :
          (workers[w].state = "Crashed") ~>
              (\E n \in WorkerIds :
                  /\ n /= w
                  /\ workers[n].type = workers[w].type
                  /\ workers[n].queue = workers[w].queue
                  /\ workers[n].state \in {"Starting", "Running"})
    /\ \A r \in Requests :
          (pc[r] = "send" /\ Live(workers, ticket[r].Node.Type) = {}) ~> (accepted[r] = 1)

\* C4: for every content-type there is at most one live worker; a replacement
\* is launched only after every earlier worker of the type has exited, and an
\* exited worker never runs or receives a ticket again.
C4_OneLiveWorker ==
    /\ [](\A t \in AllTypes : Cardinality(Live(workers, t)) <= 1)
    /\ [](\A w, n \in WorkerIds :
            (w < n /\ workers[n].state /= "Unborn" /\ workers[w].type = workers[n].type)
                => workers[w].state = "Replaced")
    /\ [][\A w \in WorkerIds :
            Exited(w) => /\ workers'[w].state \in {"Crashed", "RestartPending", "Replaced"}
                         /\ workers'[w].ticket = 0
                         /\ workers'[w].queue = workers[w].queue]_vars

\* a worker was replaced and its replacement is in its run loop with a ticket
C4_Witness ==
    \E w, n \in WorkerIds :
        /\ workers[w].state = "Replaced"
        /\ workers[n].type = workers[w].type
        /\ workers[n].state = "Running"
        /\ workers[n].ticket /= 0

\* C5: the tickets of one content-type are received in the order in which
\* they were sent, also when several sends are parked at once: the tickets
\* received are a prefix of the tickets sent, and the parked ones are the rest
\* in their order.
C5_SubmissionOrder ==
    \A q \in Channels : submitted[q] = taken[q] \o sendq[q]

\* two senders were parked at once, and both have been received
C5_Witness ==
    /\ crowd >= 2
    /\ \E q \in Channels : Len(taken[q]) >= 2

\* the request's node has a type that was never registered
Unregistered(r) == pc[r] /= "idle" /\ ticket[r] /= NoTicket /\ ticket[r].Node.Type \notin RegTypes

\* C6: QueueTicket for a content-type that was never registered fails: the
\* ticket is put on no queue, no worker receives it, the caller does not
\* block, and the request ends with the generic internal error and no content.
C6_UnregisteredType ==
    \A r \in Requests :
        Unregistered(r) =>
            /\ pc[r] \in {"QueueTicket", "done"}
            /\ Occurrences(sendq, r) = 0
            /\ Occurrences(submitted, r) = 0
            /\ accepted[r] = 0
            /\ reply[r].state = "open"
            /\ pc[r] = "done" => outcome[r] = HttpError("Application error.", 500)

\* a request for a node of an unregistered type has ended
C6_Witness ==
    \E r \in Requests : Unregistered(r) /\ pc[r] = "done"

\* C7: a ticket received by a worker that died before replying is not
\* delivered again, its reply path has carried no response (and no reply
\* path ever carries more than one), and its requester is not blocked: it is
\* about to read the closed reply path or has ended with a failure outcome.
C7_NoRetryAfterLoss ==
    \A r \in Requests :
        /\ sent[r] <= 1
        /\ Lost(r) =>
              /\ accepted[r] = 1
              /\ Occurrences(taken, r) = 1
              /\ Occurrences(sendq, r) = 0
              /\ sent[r] = 0
              /\ \A w \in WorkerIds : workers[w].ticket /= r
              /\ pc[r] \in {"receive", "done"}
              /\ pc[r] = "done" => outcome[r].status = 500

\* the worker of a lost ticket was replaced, its replacement runs, and the
\* requester has ended
C7_Witness ==
    \E r \in Requests :
        /\ Lost(r)
        /\ pc[r] = "done"
        /\ \E w, n \in WorkerIds : workers[w].state = "Replaced" /\ workers[n].state = "Running"

\* the body is embedded in the page frame: the content is the frame around it
Embedded(content, body) ==
    /\ Len(content) >= Len(body) + 2
    /\ content[1] = "<master>"
    /\ content[Len(content)] = "</master>"
    /\ SubSeq(content, Len(content) - Len(body), Len(content) - 1) = body

\* the outcome of ProcessNodeResponse by the body, the redirect and the raw
\* flag of the response, when `saved` says whether the content cases apply
ProjectionTable(saved) ==
    LET res == projection.res
        out == projection.out
    IN /\ (res.Body = <<>> /\ res.Redirect = <<>>) =>
              out = HttpError("Application error.", 500)
       /\ res.Redirect /= <<>> => out = HttpRedirect(res.Redirect)
       /\ (res.Redirect = <<>> /\ res.Body /= <<>> /\ res.Raw /\ saved) =>
              out.status = 200 /\ out.content = res.Body
       /\ (res.Redirect = <<>> /\ res.Body /= <<>> /\ ~res.Raw /\ saved) =>
              out.status = 200 /\ Embedded(out.content, res.Body)
       /\ res.Redirect = <<>> => out.status /= 303

\* C8 as claimed: for every body, redirect and raw flag, neither body nor
\* redirect gives MalformedResponse, else a redirect target gives the redirect
\* whatever the body, else raw gives the body unmodified, else the body is
\* embedded in the page frame; a response with only a body never redirects.
C8_ProjectionAsClaimed ==
    projection.called => ProjectionTable(TRUE)

\* C8 as amended: the same table, the two content cases (raw body, embedded
\* body) when session.Save succeeds; when it fails in one of them the request
\* ends with the generic internal error.
C8_Projection ==
    projection.called =>
        /\ ProjectionTable(~projection.saveErr)
        /\ (projection.res.Redirect = <<>> /\ projection.res.Body /= <<>>
            /\ projection.saveErr) => projection.out = HttpError("Application error.", 500)

\* a response with only a body was rendered into the page frame
C8_Witness ==
    /\ projection.called
    /\ projection.res.Body /= <<>>
    /\ projection.res.Redirect = <<>>
    /\ ~projection.res.Raw
    /\ projection.out.status = 200

\* C9: when the response carries an updated item, the item used afterwards is
\* the updated one with the path of the item that was dispatched, whatever
\* path the worker gave it.
C9_PathPreserved ==
    (projection.called /\ projection.res.HasNode /\ projection.out.status = 200) =>
        /\ projection.out.node.Path = projection.node.Path
        /\ projection.out.node.Type = projection.res.Node.Type
        /\ projection.out.node.Title = projection.res.Node.Title

\* a response with an updated item of another path was rendered
C9_Witness ==
    /\ projection.called
    /\ projection.res.HasNode
    /\ projection.res.Node.Path /= projection.node.Path
    /\ projection.out.status = 200

\* no stored record holds a path
PathNotStored ==
    \A p \in RelPaths :
        files[p].exists => \A i \in 1..Len(files[p].content) : files[p].content[i][1] /= "path"

\* C10: for every absolute path and record, write followed by lookup of the
\* path succeeds and returns the record written, the path being the lookup's
\* argument and never stored; also when the directories above the path do not
\* exist yet and when the storage location exists already.
C10_WriteThenLookup ==
    storeOp.op = "write" =>
        /\ ~storeOp.panic
        /\ storeOp.err = ""
        /\ lookupNode(files, storeOp.path).err = ""
        /\ lookupNode(files, storeOp.path).node = storeOp.node
        /\ PathNotStored

\* the n-th path above path: filepath.Dir applied n times
RECURSIVE Up(_, _)
Up(path, n) == IF n = 0 THEN path ELSE Up(Dir(path), n - 1)

\* the directories of the chain of attrRun.start that hold the file `name`
Defining(name) == {d \in Chain(attrRun.start) : <<name, d>> \in attrFiles}

\* the value of the file `name` nearest to the start path, "" without one
Nearest(name) ==
    IF Defining(name) = {} THEN <<>>
    ELSE <<name, CHOOSE d \in Defining(name) : \A e \in Defining(name) : Len(e) <= Len(d)>>

\* C11: getSidebar always terminates: called with any path such that neither
\* the path nor any path above it has a sidebar, it reads the path and then
\* each path above it exactly once, in order (the i-th read is the start path
\* with filepath.Dir applied i-1 times, so there are never more reads than
\* the path has elements), stops at the path that is its own parent, the
\* root, and returns the empty string.
C11_SidebarTerminates ==
    (attrRun.fn = "getSidebar" /\ Defining("sidebar.html") = {}) =>
        /\ Len(attrRun.visited) <= Len(attrRun.start)
        /\ \A i \in 1..Len(attrRun.visited) : attrRun.visited[i] = Up(attrRun.start, i - 1)
        /\ \A i, j \in 1..Len(attrRun.visited) :
              i /= j => attrRun.visited[i] /= attrRun.visited[j]
        /\ attrRun.pc = "loop" => Len(attrRun.visited) < Len(attrRun.start)
        /\ attrRun.pc = "done" =>
              /\ attrRun.result = <<>>
              /\ attrRun.path = Dir(attrRun.path)
              /\ attrRun.visited[Len(attrRun.visited)] = <<"/">>
              /\ Len(attrRun.visited) = Len(attrRun.start)

\* getSidebar has returned from a path two levels below the root with no
\* sidebar on the way
C11_Witness ==
    /\ attrRun.fn = "getSidebar"
    /\ attrRun.pc = "done"
    /\ Defining("sidebar.html") = {}
    /\ Len(attrRun.start) = 3
    /\ Len(attrRun.visited) = 3

\* the file that the function called reads
AttrNameOf(fn) == IF fn = "getSidebar" THEN "sidebar.html" ELSE "below_header.html"

\* the call is over, the directory of the path does not hold the file and a
\* directory above it does
InheritCase ==
    /\ attrRun.pc = "done"
    /\ AttrMissing(AttrNameOf(attrRun.fn), attrRun.start)
    /\ Defining(AttrNameOf(attrRun.fn)) /= {}

Without(n, t) == SelectSeq(n.links, LAMBDA v : v.Target /= t)

\* C13 as stated: for every navigation, name and target, Add followed by
\* Remove of that target gives a navigation equal to the original in content
\* and order, also when the original holds links with that target already.
C13_AddRemoveRestores ==
    navCall.op = "AddRemove" => ~navCall.panic /\ navCall.out.links = navCall.nav.links

\* C13: for every navigation, name and target, Add followed by Remove of that
\* target gives the original without its links to that target, the others in
\* their order: the original itself, in content and order, when it holds no
\* link with that target.
C13_AddRemove ==
    navCall.op = "AddRemove" =>
        /\ ~navCall.panic
        /\ navCall.out.links = Without(navCall.nav, navCall.target)
        /\ (\A i \in 1..Len(navCall.nav.links) :
               navCall.nav.links[i].Target /= navCall.target)
              => navCall.out.links = navCall.nav.links

\* Add and Remove were applied to two links, neither with the target
C13_Witness ==
    /\ navCall.op = "AddRemove"
    /\ Len(navCall.nav.links) = 2
    /\ Without(navCall.nav, navCall.target) = navCall.nav.links
    /\ navCall.out.links = navCall.nav.links

\* C14: Remove on a navigation with no link to the target completes without
\* error and leaves the navigation as it was, for every navigation, the empty
\* and the nil one included; when links match, all of them are removed and
\* the others keep their order.
C14_RemoveAbsent ==
    navCall.op = "Remove" =>
        /\ ~navCall.panic
        /\ navCall.out.links = Without(navCall.nav, navCall.target)

\* C16: MakeAbsolute is idempotent for every navigation and root path:
\* applying it twice gives what applying it once gives; a target that begins
\* with the separator is left as it is, and afterwards every target begins
\* with the separator.
C16_MakeAbsoluteIdempotent ==
    navCall.op = "MakeAbsolute" =>
        /\ ~navCall.panic
        /\ navCall.again = navCall.out
        /\ Len(navCall.out.links) = Len(navCall.nav.links)
        /\ \A i \in 1..Len(navCall.nav.links) :
              /\ (navCall.nav.links[i].Target /= <<>> /\ Head(navCall.nav.links[i].Target) = "/")
                    => navCall.out.links[i] = navCall.nav.links[i]
              /\ navCall.out.links[i].Target /= <<>>
              /\ Head(navCall.out.links[i].Target) = "/"

\* C15: getNav marks as active exactly the first link, in the order of the
\* file, whose target equals the active node, and no other link; when no
\* target equals it, no link is active.
C15_FirstMatchActive ==
    navCall.op = "getNav" =>
        LET links == navCall.out.links
            hits == {i \in 1..Len(links) : links[i].Target = navCall.target}
        IN \A i \in 1..Len(links) :
              links[i].Active <=> (i \in hits /\ \A j \in hits : i <= j)

\* getNav has read a file with two links to the active node and marked the
\* first of them
C15_Witness ==
    /\ navCall.op = "getNav"
    /\ Len(navCall.out.links) = 2
    /\ navCall.out.links[1].Target = navCall.target
    /\ navCall.out.links[2].Target = navCall.target
    /\ navCall.out.links[1].Active
    /\ ~navCall.out.links[2].Active

\* the navigation.yaml the call of getNav found: in a recursive search the
\* one of the path it reports, else the one of the path asked for
FoundNavFile ==
    IF navCall.recursive
    THEN IF navCall.navRoot = <<>> THEN NoNavFile
         ELSE navFiles[Join(Tail(navCall.navRoot))]
    ELSE navFiles[Join(Tail(navCall.path))]

\* C18: getNav tells a missing navigation from an empty one, recursive or
\* not: when no navigation.yaml is found it returns nil, and when the file
\* found holds no entry it returns an empty navigation that is not nil, the
\* file being that of the path asked for or that of a path above it that the
\* recursive search reached.
C18_MissingOrEmpty ==
    navCall.op = "getNav" =>
        /\ ~FoundNavFile.exists => navCall.out = NilNav
        /\ (FoundNavFile.exists /\ FoundNavFile.entries = <<>>) => navCall.out = EmptyNav

\* C17: after any sequence of getNav, Add, Remove, Dump, h.Add and h.Remove,
\* no navigation.yaml holds an entry with active set: Dump clears every flag
\* before it writes.
C17_NoActivePersisted ==
    \A d \in RelPaths :
        \A i \in 1..Len(navFiles[d].entries) : ~navFiles[d].entries[i].active

\* Dump has written a navigation that came with an active link
C17_Witness ==
    /\ navCall.op = "Dump"
    /\ ~navCall.panic
    /\ \E i \in 1..Len(navCall.nav.links) : navCall.nav.links[i].Active
    /\ Len(navFiles[Join(Tail(navCall.path))].entries) = Len(navCall.nav.links)

\* C19: every write to the map of the queues, which AddNodeProcess makes, is
\* synchronized with the reads of the map: in no state is a write to the map
\* under way while another task reads or writes the map.
C19_RegistrySynchronized ==
    \A T, U \in RegTasks :
        (T /= U /\ regAccess[T] = "write") => regAccess[U] = "none"

\* request r has put its ticket on a queue, or is about to
Ticketed(r) ==
    \/ ticket[r] /= NoTicket
    \/ pc[r] \in {"QueueTicket", "send", "receive"}
    \/ Occurrences(submitted, r) > 0
    \/ \E q \in Channels : \E i \in 1..Len(sendq[q]) : sendq[q][i] = r

\* C20: ServeHTTP has a ticket put on a queue only for a request whose node
\* lookup succeeded and whose action passed the permission check: a request
\* whose lookup failed, one whose action is not permitted and one with the
\* action login, logout, add or remove never puts a ticket on a queue.
C20_TicketAfterChecks ==
    \A r \in Requests :
        /\ Ticketed(r) =>
              /\ checked[r] = [lookup |-> "ok", permitted |-> "yes"]
              /\ ticket[r].Action \notin {"login", "logout", "add", "remove"}
        /\ (\/ checked[r].lookup /= "ok"
            \/ checked[r].permitted /= "yes"
            \/ pc[r] \in {"login", "logout", "add", "remove"}) => ~Ticketed(r)

\* one request has put its ticket on a queue, another was refused by the
\* permission check
C20_Witness ==
    \E r, u \in Requests :
        /\ Occurrences(submitted, r) > 0
        /\ checked[u] = [lookup |-> "ok", permitted |-> "no"]
        /\ outcome[u].status = 401

====
